---- MODULE Spec2Model ----
(***************************************************************************)
(* S-Bus UDP client (sbus/src/client.rs): the request/response multiplexer *)
(* of SBusUDPClient.  N request tasks share one client; a background task  *)
(* (receive_response) reads datagrams from the socket and hands each       *)
(* decoded message to the one-shot channel registered in response_map      *)
(* under the message's sequence number.                                    *)
(***************************************************************************)
EXTENDS Integers, Sequences, FiniteSets, TLC

\* ---------------------------------------------------------------- bounds
NumRequests == 2        \* request tasks sharing the client

\* ------------------------------------------------------ program constants
U16Modulus == 65536     \* sequence_number: AtomicU16
U16Max == 65535         \* u16::MAX, the limit of u16::checked_add

Requests == 1 .. NumRequests

\* The sequence counter of a client that has been running for a while: all
\* earlier requests have completed and their entries have been consumed.
StartSequenceNumbers == {0, 65535}

\* ------------------------------------------------------------- arguments
ReadKinds == {"counters", "flags", "inputs", "outputs", "registers", "timers"}
WriteKinds == {"counters", "flags", "outputs", "registers", "timers"}

\* consts::*_MAX_REQUEST_LEN
MaxRequestLen(kind) == IF kind = "flags" THEN 128 ELSE 32

Op(dir, kind, address, length) ==
    [dir |-> dir, kind |-> kind, address |-> address, length |-> length]

\* Variant: validate_input without the upper limit on length.
validate_input_no_upper(address, length, max_length) ==
    IF length = 0
    THEN "ArgumentsOutOfRange"
    ELSE IF address + ((length - 1) % U16Modulus) > U16Max
         THEN "ArgumentsOutOfRange"
         ELSE "Ok"

\* fn validate_input(address: u16, length: usize, max_length: u16)
validate_input(address, length, max_length) ==
    IF length = 0 \/ length > max_length
    THEN "ArgumentsOutOfRange"
    ELSE IF address + ((length - 1) % U16Modulus) > U16Max
         THEN "ArgumentsOutOfRange"
         ELSE "Ok"

\* enum TelegramAttribute with its FromPrimitive / IntoPrimitive conversions
TelegramAttributeFrom(b) ==
    IF b = 0 THEN [tag |-> "Request", n |-> 0]
    ELSE IF b = 1 THEN [tag |-> "Response", n |-> 1]
    ELSE IF b = 2 THEN [tag |-> "Acknowledge", n |-> 2]
    ELSE [tag |-> "Unknown", n |-> b]
TelegramAttributeInto(a) == a.n
TelegramRequest == TelegramAttributeFrom(0)
TelegramResponse == TelegramAttributeFrom(1)
TelegramAcknowledge == TelegramAttributeFrom(2)

\* The reply shape each typed operation passes to send_request.
ResponseType(op) == IF op.dir = "read" THEN TelegramResponse ELSE TelegramAcknowledge

\* The call issued while the multiplexer is exercised.
MuxOps == {Op("read", "registers", 100, 1)}

\* Calls issued to exercise argument validation: every operation at the
\* boundaries of its length cap and of the 16-bit address space.
BoundaryLengths == {0, 1, 2, 32, 33, 128, 129, 255}
BoundaryAddresses == {0, 65408, 65409, 65504, 65505, 65534, 65535}
ArgOps ==
    {Op("read", k, a, l) : k \in ReadKinds, a \in BoundaryAddresses, l \in BoundaryLengths}
    \cup
    {Op("write", k, a, l) : k \in WriteKinds, a \in BoundaryAddresses, l \in BoundaryLengths \cup {256, 65537}}

\* ---------------------------------------------------------------- errors
ArgumentsOutOfRange == [kind |-> "Err", err |-> "ArgumentsOutOfRange", text |-> "Length or address"]
IOError == [kind |-> "Err", err |-> "IO", text |-> "io"]
InvalidResponse(text) == [kind |-> "Err", err |-> "InvalidResponse", text |-> text]
NoValue == [kind |-> "None"]      \* nothing there (no call, no channel, no result)
Empty == [kind |-> "Empty"]       \* a one-shot channel that holds no value yet
Closed == [kind |-> "Closed"]     \* a one-shot channel whose sender was dropped unused
Unexpected == InvalidResponse("The server sent an unexpected response")
OkMsg(msg) == [kind |-> "Ok", msg |-> msg]
OkBody(body) == [kind |-> "Ok", body |-> body]
OkValue(value) == [kind |-> "Ok", value |-> value]
MissingData == [tag |-> "MissingData", text |-> ""]
InvalidData(text) == [tag |-> "InvalidData", text |-> text]

\* enum DecodeError, as produced by Message::decode_from_bytes
DecodeErrors ==
    { [tag |-> "MissingData", text |-> ""],
      [tag |-> "InvalidData", text |-> "Checksum mismatch"],
      [tag |-> "InvalidData", text |-> "Invalid byte length"] }

\* impl From<DecodeError> for SBusError
FromDecodeError(e) ==
    IF e.tag = "MissingData"
    THEN InvalidResponse("The server sent invalid data")
    ELSE InvalidResponse(e.text)

\* ------------------------------------------------------------- datagrams
TelegramAttributes == {TelegramResponse, TelegramAcknowledge}

\* A datagram that decodes to a Message.
Datagram(seq, attr, body) == [ok |-> TRUE, seq |-> seq, attr |-> attr, body |-> body]
\* A datagram on which Message::decode_from_bytes fails.
BadDatagram(e) == [ok |-> FALSE, error |-> e]

\* ------------------------------------------------------- primitive codec
\* Encoder::write_u16 / write_u32 / write_i32: big-endian bytes
write_u16(v) == <<v \div 256, v % 256>>
write_u32(v) == <<v \div 16777216, (v \div 65536) % 256, (v \div 256) % 256, v % 256>>
\* two's complement: the bytes of a negative v are the inverted bytes of -v - 1
write_i32(v) ==
    IF v >= 0 THEN write_u32(v)
    ELSE [k \in 1 .. 4 |-> 255 - write_u32((0 - v) - 1)[k]]

\* Variant: the low byte first.
read_u16_little_endian(b, p) == b[p + 1] * 256 + b[p]

\* Decoder::read_u16 / read_u32 / read_i32 at position p of bytes b
\* (the caller has checked that the bytes are there).
read_u16(b, p) == b[p] * 256 + b[p + 1]
read_u32(b, p) == b[p] * 16777216 + b[p + 1] * 65536 + b[p + 2] * 256 + b[p + 3]
read_i32(b, p) ==
    IF b[p] >= 128
    THEN (0 - read_u32([k \in 1 .. 4 |-> 255 - b[p + k - 1]], 1)) - 1
    ELSE read_u32(b, p)

Slice(b, from, to) == [k \in 1 .. (to - from + 1) |-> b[from + k - 1]]

\* Encoder::write_bools: ceil(n/8) bytes, value k*8+i in bit i of byte k
BoolBit(values, index, weight) ==
    IF index <= Len(values) /\ values[index] THEN weight ELSE 0
write_bools(values) ==
    [k \in 1 .. ((Len(values) + 7) \div 8) |->
        BoolBit(values, 8 * (k - 1) + 1, 1) + BoolBit(values, 8 * (k - 1) + 2, 2)
      + BoolBit(values, 8 * (k - 1) + 3, 4) + BoolBit(values, 8 * (k - 1) + 4, 8)
      + BoolBit(values, 8 * (k - 1) + 5, 16) + BoolBit(values, 8 * (k - 1) + 6, 32)
      + BoolBit(values, 8 * (k - 1) + 7, 64) + BoolBit(values, 8 * (k - 1) + 8, 128)]

\* Decoder::read_bools(length) on the remaining bytes b: `length` booleans
\* out of ceil(length/8) bytes, MissingData when the bytes run out.
TestBitMsbFirst(byte, i) == (byte \div (2 ^ (7 - i))) % 2 = 1
TestBit(byte, i) == (byte \div (2 ^ i)) % 2 = 1
read_bools(b, length) ==
    IF Len(b) < (length + 7) \div 8
    THEN [ok |-> FALSE, error |-> MissingData]
    ELSE [ok |-> TRUE,
          values |-> [k \in 1 .. length |-> TestBit(b[((k - 1) \div 8) + 1], (k - 1) % 8)],
          used |-> (length + 7) \div 8]

\* ---------------------------------------------------------------- crc16
\* Bitwise exclusive or of two naturals.
RECURSIVE Xor(_, _)
Xor(a, b) ==
    IF a = 0 THEN b
    ELSE IF b = 0 THEN a
    ELSE ((a + b) % 2) + 2 * Xor(a \div 2, b \div 2)

\* Variant: the polynomial 0x8005 in place of 0x1021.
crc16_bit_8005(crc) ==
    IF ((crc * 2) \div 65536) % 2 = 1
    THEN Xor(crc * 2, 32773) % 65536
    ELSE crc * 2

\* utils::crc16, the body of `for _ in 0..8`: shift left, and when bit 16
\* came out, xor with 0x1021 and keep 16 bits
crc16_bit(crc) ==
    IF ((crc * 2) \div 65536) % 2 = 1
    THEN Xor(crc * 2, 4129) % 65536
    ELSE crc * 2

\* utils::crc16, the body of `for _ in 0..8`, run `count` times
crc16_shift[count \in 0 .. 8, crc \in 0 .. 16777215] ==
    IF count = 0 THEN crc
    ELSE crc16_shift[count - 1, crc16_bit(crc)]

\* utils::crc16: crc_after[k] is crc after the first k bytes of data
crc16(data) ==
    LET crc_after[k \in 0 .. Len(data)] ==
            IF k = 0 THEN 0
            ELSE crc16_shift[8, Xor(crc_after[k - 1], data[k] * 256)]
    IN crc_after[Len(data)] % 65536

\* --------------------------------------------------------------- message
\* Variant: the length field counts the header and the checksum only.
MessageEncodeHeaderLength(m) ==
    LET bytes == write_u32(11) \o <<1, 0>> \o write_u16(m.seq)
                 \o <<TelegramAttributeInto(m.attr)>> \o m.body
    IN bytes \o write_u16(crc16(bytes))

\* impl Encodable for Message
MessageEncode(m) ==
    LET bytes == write_u32(Len(m.body) + 11) \o <<1, 0>> \o write_u16(m.seq)
                 \o <<TelegramAttributeInto(m.attr)>> \o m.body
    IN bytes \o write_u16(crc16(bytes))

\* Variant: a decoder that does not compare the checksum.
MessageDecodeUnchecked(b) ==
    IF Len(b) < 4 THEN [ok |-> FALSE, error |-> MissingData]
    ELSE IF read_u32(b, 1) < 6 THEN [ok |-> FALSE, error |-> InvalidData("Invalid byte length")]
    ELSE IF Len(b) < read_u32(b, 1) THEN [ok |-> FALSE, error |-> MissingData]
    ELSE IF read_u32(b, 1) < 11 THEN [ok |-> FALSE, error |-> MissingData]
    ELSE [ok |-> TRUE,
          seq |-> read_u16(b, 7),
          attr |-> TelegramAttributeFrom(b[9]),
          body |-> Slice(b, 10, read_u32(b, 1) - 2)]

\* Variant: a length below 6 is reported like a short read.
MessageDecodeShortIsMissing(b) ==
    IF Len(b) < 4 \/ read_u32(b, 1) < 6 THEN [ok |-> FALSE, error |-> MissingData]
    ELSE MessageDecodeUnchecked(b)

\* impl Decodable for Message.  b holds byte_length (4 bytes), then
\* byte_length - 6 bytes, then the checksum: the reads fail with MissingData
\* when b is shorter than that, and the five header bytes after the length
\* must be there.
MessageDecode(b) ==
    IF Len(b) < 4 THEN [ok |-> FALSE, error |-> MissingData]
    ELSE IF read_u32(b, 1) < 6 THEN [ok |-> FALSE, error |-> InvalidData("Invalid byte length")]
    ELSE IF Len(b) < read_u32(b, 1) THEN [ok |-> FALSE, error |-> MissingData]
    ELSE IF crc16(Slice(b, 1, read_u32(b, 1) - 2)) # read_u16(b, read_u32(b, 1) - 1)
         THEN [ok |-> FALSE, error |-> InvalidData("Checksum mismatch")]
    ELSE IF read_u32(b, 1) < 11 THEN [ok |-> FALSE, error |-> MissingData]
    ELSE [ok |-> TRUE,
          seq |-> read_u16(b, 7),
          attr |-> TelegramAttributeFrom(b[9]),
          body |-> Slice(b, 10, read_u32(b, 1) - 2)]

\* impl Encodable for Request
RequestEncode(station, command_id, body) == <<station, command_id>> \o body

\* send_request: the datagram of a request
RequestDatagram(sequence_number, station, command_id, body) ==
    MessageEncode([seq |-> sequence_number, attr |-> TelegramRequest,
                   body |-> RequestEncode(station, command_id, body)])

\* Variant: the first byte counts one byte more.
WriteOutputsRequestEncodePlus3(x) ==
    [ok |-> TRUE,
     bytes |-> <<((Len(x.values) + 7) \div 8) + 3>> \o write_u16(x.address)
               \o <<Len(x.values) - 1>> \o write_bools(x.values)]

\* impl Encodable for WriteOutputsRequest
WriteOutputsRequestEncode(x) ==
    IF (Len(x.values) + 7) \div 8 > 253 \/ Len(x.values) = 0 \/ Len(x.values) - 1 > 255
    THEN [ok |-> FALSE, error |-> "Overflow"]
    ELSE [ok |-> TRUE,
          bytes |-> <<((Len(x.values) + 7) \div 8) + 2>> \o write_u16(x.address)
                    \o <<Len(x.values) - 1>> \o write_bools(x.values)]

\* impl Decodable for WriteOutputsRequest: read_bools is called with
\* byte_length, the values are then truncated to length.
WriteOutputsRequestDecode(b) ==
    IF Len(b) < 1 THEN [ok |-> FALSE, error |-> MissingData]
    ELSE IF b[1] < 2 THEN [ok |-> FALSE, error |-> InvalidData("Invalid byte length")]
    ELSE IF Len(b) < 3 THEN [ok |-> FALSE, error |-> MissingData]
    ELSE IF Len(b) < 4 THEN [ok |-> FALSE, error |-> MissingData]
    ELSE IF b[4] = 255 THEN [ok |-> FALSE, error |-> InvalidData("Invalid length")]
    ELSE IF ~read_bools(Slice(b, 5, Len(b)), b[1] - 2).ok
         THEN [ok |-> FALSE, error |-> MissingData]
    ELSE LET values == read_bools(Slice(b, 5, Len(b)), b[1] - 2).values
         IN [ok |-> TRUE,
             address |-> read_u16(b, 2),
             values |-> SubSeq(values, 1, IF b[4] + 1 < Len(values) THEN b[4] + 1 ELSE Len(values))]

\* ---------------------------------------------------------- reply bodies
\* enum Acknowledge with its FromPrimitive conversion
AcknowledgeFrom(c) ==
    IF c = 0 THEN [tag |-> "Ack", n |-> 0]
    ELSE IF c = 1 THEN [tag |-> "Nak", n |-> 1]
    ELSE IF c = 2 THEN [tag |-> "NakPassword", n |-> 2]
    ELSE IF c = 3 THEN [tag |-> "NakPGUReducedProtocol", n |-> 3]
    ELSE IF c = 4 THEN [tag |-> "NakPGUAlreadyUsed", n |-> 4]
    ELSE [tag |-> "Unknown", n |-> c]
Ack == AcknowledgeFrom(0)

\* impl Decodable for Acknowledge
AcknowledgeDecode(b) ==
    IF Len(b) < 2
    THEN [ok |-> FALSE, error |-> MissingData]
    ELSE [ok |-> TRUE, value |-> AcknowledgeFrom(read_u16(b, 1))]

\* Variant: a trailing word of 1 to 3 bytes is left unread.
ReadIntsResponseDecodeTruncating(b) ==
    [ok |-> TRUE, values |-> [k \in 1 .. (Len(b) \div 4) |-> read_i32(b, 4 * (k - 1) + 1)]]

\* impl Decodable for ReadCountersResponse / ReadRegistersResponse /
\* ReadTimersResponse: while remaining > 0 { read_i32()? }
ReadIntsResponseDecode(b) ==
    IF Len(b) % 4 # 0
    THEN [ok |-> FALSE, error |-> MissingData]
    ELSE [ok |-> TRUE, values |-> [k \in 1 .. (Len(b) \div 4) |-> read_i32(b, 4 * (k - 1) + 1)]]

\* impl Decodable for ReadFlagsResponse / ReadInputsResponse /
\* ReadOutputsResponse: read_bools(remaining * 8)
ReadBitsResponseDecode(b) == read_bools(b, Len(b) * 8)

\* The payload the device puts in its answer to request `i` that performs
\* operation o: for a read of integers o.length words holding the value i,
\* for a read of bits the packed bits all set, for a write the code Ack.
ReplyBody(i, o) ==
    IF o.dir = "write" THEN write_u16(0)
    ELSE IF o.kind \in {"flags", "inputs", "outputs"}
         THEN write_bools([k \in 1 .. o.length |-> TRUE])
         ELSE [k \in 1 .. 4 * o.length |-> write_i32(i)[((k - 1) % 4) + 1]]

\* Variant: an attribute outside the three telegram kinds passes the check.
SendRequestReturnLenient(response_type, received) ==
    IF received.kind = "Err" THEN received
    ELSE IF received.msg.attr # response_type /\ received.msg.attr.tag # "Unknown"
         THEN InvalidResponse("Telegram attribute mismatch")
         ELSE OkBody(received.msg.body)

\* send_request after receiver.await: the error of the fan-out, the
\* attribute check, or the body of the message.
SendRequestReturn(response_type, received) ==
    IF received.kind = "Err" THEN received
    ELSE IF received.msg.attr # response_type
         THEN InvalidResponse("Telegram attribute mismatch")
         ELSE OkBody(received.msg.body)

\* read_flags / read_inputs / read_outputs after send_request(..)?
ReadBitsReturn(o, body) == OkValue(ReadBitsResponseDecode(body).values)

\* Variant: a write that reports every acknowledge code as success.
WriteReturnAlways(body) ==
    IF AcknowledgeDecode(body).ok
    THEN OkValue(TRUE)
    ELSE FromDecodeError(AcknowledgeDecode(body).error)

\* write_* after send_request(..)?: Ok(res == Acknowledge::Ack)
WriteReturn(body) ==
    IF AcknowledgeDecode(body).ok
    THEN OkValue(AcknowledgeDecode(body).value = Ack)
    ELSE FromDecodeError(AcknowledgeDecode(body).error)

\* read_counters / read_registers / read_timers after send_request(..)?
ReadIntsReturn(body) ==
    IF ReadIntsResponseDecode(body).ok
    THEN OkValue(ReadIntsResponseDecode(body).values)
    ELSE FromDecodeError(ReadIntsResponseDecode(body).error)

\* What a typed operation returns from the result r of send_request.
TypedReturn(o, r) ==
    IF r.kind = "Err" THEN r
    ELSE IF o.dir = "write" THEN WriteReturn(r.body)
    ELSE IF o.kind \in {"flags", "inputs", "outputs"} THEN ReadBitsReturn(o, r.body)
    ELSE ReadIntsReturn(r.body)

VARIABLES
    sequence_number,    \* SBusUDPClient.sequence_number
    response_map,       \* SBusUDPClient.response_map: seq -> sender of request i's channel
    pc,                 \* pc[i]: where request task i stands in its typed call
    op,                 \* op[i]: arguments of the typed call
    seq,                \* seq[i]: the local sequence_number of send_request
    chan,               \* chan[i]: the value stored in request i's one-shot channel
    result,             \* result[i]: what the typed call returned
    sent,               \* datagrams handed to the socket, in order
    net,                \* the datagram travelling towards the client, if any
    rx_pc,              \* position of the task running receive_response
    rx_msg,             \* its local msg / error
    rx_sender,          \* its local sender
    rx_result,          \* what receive_response returned (JoinHandle output)
    aborted,            \* abort_handle.abort() was called (the client was dropped)
    wire,               \* a value on its way through the codec: input, bytes, output
    mutex               \* the task that holds the guard of response_map, if any

vars == <<sequence_number, response_map, pc, op, seq, chan, result, sent, net,
          rx_pc, rx_msg, rx_sender, rx_result, aborted, wire, mutex>>

reqVars == <<pc, op, seq, chan, result>>
rxVars == <<rx_pc, rx_msg, rx_sender, rx_result>>

\* Holders of the tokio Mutex around response_map: nobody, the task of
\* receive_response, or request task i (i in Requests).
Unlocked == 0
ReceiverTask == -1

EmptyMap == [s \in {} |-> 0]
MapInsert(map, key, value) ==
    [s \in DOMAIN map \cup {key} |-> IF s = key THEN value ELSE map[s]]
MapRemove(map, key) == [s \in DOMAIN map \ {key} |-> map[s]]

\* SBusUDPClient::new
InitClient ==
    /\ sequence_number \in StartSequenceNumbers
    /\ response_map = EmptyMap
    /\ pc = [i \in Requests |-> "idle"]
    /\ op = [i \in Requests |-> NoValue]
    /\ seq = [i \in Requests |-> -1]
    /\ chan = [i \in Requests |-> NoValue]
    /\ result = [i \in Requests |-> NoValue]
    /\ sent = << >>
    /\ net = {}
    /\ rx_pc = "recv"
    /\ rx_msg = NoValue
    /\ rx_sender = 0
    /\ rx_result = NoValue
    /\ aborted = FALSE
    /\ mutex = Unlocked

Init == InitClient /\ wire = NoValue

\* ---------------------------------------------------------- request tasks
\* Variant: a counter that is read but not advanced.
fetch_add_stuck(value, n) == value

\* Variant: a counter that stops at its largest value instead of wrapping.
fetch_add_saturating(value, n) == IF value + n > U16Max THEN U16Max ELSE value + n

\* AtomicU16::fetch_add: the new value of the counter (wrapping).
fetch_add(value, n) == (value + n) % U16Modulus

\* The receiving half of request i's channel is alive while the future of
\* send_request exists and has not consumed it.
ReceiverAlive(i) == pc[i] \in {"lock", "send", "await"}

\* Variant: a send that stores the value whether or not anyone can take it.
SenderSendAlways(ch, i, value) == [ch EXCEPT ![i] = value]

\* oneshot::Sender::send(value) on request i's channel: stores the value, or
\* is a no-op returning Err(value) when the receiving half is gone.
SenderSend(ch, i, value) ==
    IF ReceiverAlive(i) THEN [ch EXCEPT ![i] = value] ELSE ch

\* Dropping a Sender that was never used closes the channel.
SenderDrop(ch, i) ==
    IF ReceiverAlive(i) THEN [ch EXCEPT ![i] = Closed] ELSE ch

\* A typed operation (read_counters .. write_timers) up to the first
\* suspension point of send_request: validate_input, fetch_add, encoding,
\* oneshot::channel().
Call(i, o) ==
    /\ ~aborted                                      \* the client exists
    /\ pc[i] = "idle"
    /\ \A j \in Requests : j < i => pc[j] # "idle"   \* tasks are numbered by call order
    /\ op' = [op EXCEPT ![i] = o]
    /\ IF validate_input(o.address, o.length, MaxRequestLen(o.kind)) # "Ok"
       THEN /\ pc' = [pc EXCEPT ![i] = "done"]
            /\ result' = [result EXCEPT ![i] = ArgumentsOutOfRange]
            /\ UNCHANGED <<sequence_number, seq, chan>>
       ELSE /\ seq' = [seq EXCEPT ![i] = sequence_number]
            /\ sequence_number' = fetch_add(sequence_number, 1)
            /\ chan' = [chan EXCEPT ![i] = Empty]
            /\ pc' = [pc EXCEPT ![i] = "lock"]
            /\ UNCHANGED result
    /\ UNCHANGED <<wire, aborted, mutex, response_map, sent, net, rxVars>>

\* send_request: { let mut map = response_map.lock().await; map.insert(..) }
Insert(i) ==
    /\ pc[i] = "lock"
    /\ response_map' = MapInsert(response_map, seq[i], i)
    /\ chan' = IF seq[i] \in DOMAIN response_map
               THEN SenderDrop(chan, response_map[seq[i]])
               ELSE chan
    /\ pc' = [pc EXCEPT ![i] = "send"]
    /\ UNCHANGED <<wire, aborted, mutex, sequence_number, op, seq, result, sent, net, rxVars>>

\* Variant: the datagram is handed to the socket before the slot is inserted.
SendUnregistered(i) ==
    /\ pc[i] = "lock"
    /\ sent' = Append(sent, [seq |-> seq[i], req |-> i])
    /\ pc' = [pc EXCEPT ![i] = "await"]
    /\ UNCHANGED <<wire, aborted, mutex, sequence_number, response_map, op, seq, chan, result, net, rxVars>>

\* send_request: self.socket.send(&req_bytes).await?
Send(i) ==
    /\ pc[i] = "send"
    /\ \/ /\ sent' = Append(sent, [seq |-> seq[i], req |-> i])
          /\ pc' = [pc EXCEPT ![i] = "await"]
          /\ UNCHANGED result
       \/ /\ pc' = [pc EXCEPT ![i] = "done"]
          /\ result' = [result EXCEPT ![i] = IOError]
          /\ UNCHANGED sent
    /\ UNCHANGED <<wire, aborted, mutex, sequence_number, response_map, op, seq, chan, net, rxVars>>

\* send_request: receiver.await.unwrap(), the attribute check, and the return
Await(i) ==
    /\ pc[i] = "await"
    /\ chan[i] # Empty
    /\ IF chan[i] = Closed
       THEN /\ pc' = [pc EXCEPT ![i] = "panicked"]
            /\ UNCHANGED result
       ELSE /\ pc' = [pc EXCEPT ![i] = "done"]
            /\ result' = [result EXCEPT ![i] =
                 TypedReturn(op[i], SendRequestReturn(ResponseType(op[i]), chan[i]))]
    /\ UNCHANGED <<wire, aborted, mutex, sequence_number, response_map, op, seq, chan, sent, net, rxVars>>

\* timeout_or_cancel: the timer or ctrl-c wins the select, the future of the
\* typed call is dropped at one of its suspension points.
\* Variant: giving up hands the sequence number back to the counter.
AbandonReleasingNumber(i) ==
    /\ pc[i] \in {"lock", "send", "await"}
    /\ pc' = [pc EXCEPT ![i] = "abandoned"]
    /\ sequence_number' = seq[i]
    /\ UNCHANGED <<wire, aborted, mutex, response_map, op, seq, chan, result, sent, net, rxVars>>

Abandon(i) ==
    /\ pc[i] \in {"lock", "send", "await"}
    /\ pc' = [pc EXCEPT ![i] = "abandoned"]
    /\ UNCHANGED <<wire, aborted, mutex, sequence_number, response_map, op, seq, chan, result, sent, net, rxVars>>

\* impl Drop for SBusUDPClient.  Every future of a typed call borrows the
\* client, so none is alive when the client is dropped.
Drop ==
    /\ ~aborted
    /\ \A i \in Requests : pc[i] \notin {"lock", "send", "await"}
    /\ aborted' = TRUE
    /\ UNCHANGED <<wire, mutex, sequence_number, response_map, reqVars, sent, net, rxVars>>

\* Variant: dropping the client leaves the receiver task running.
CancelledNever == FALSE

\* AbortHandle::abort: the task is cancelled at its next await point
\* (socket.recv().await, response_map.lock().await) and never polled again.
Cancelled == aborted

\* ------------------------------------------------------------ the device
\* One datagram travels towards the client at a time.  The device answers
\* any transmitted request at any later moment, so the datagrams still reach
\* the receiver in every order.
Transmitted == {sent[k].req : k \in DOMAIN sent}

\* The device answers a request it received (possibly more than once).
ServerAnswer(i, attr, body) ==
    /\ i \in Transmitted
    /\ net = {}
    /\ net' = net \cup {Datagram(seq[i], attr, body)}
    /\ UNCHANGED <<wire, aborted, mutex, sequence_number, response_map, reqVars, sent, rxVars>>

ServerReply(i, attr) == ServerAnswer(i, attr, ReplyBody(i, op[i]))

\* The device sends a well-formed telegram that answers no request.
StraySequenceNumbers == {0, 7}
ServerStray(s) ==
    /\ net = {}
    /\ net' = net \cup {Datagram(s, TelegramResponse, << >>)}
    /\ UNCHANGED <<wire, aborted, mutex, sequence_number, response_map, reqVars, sent, rxVars>>

\* A datagram arrives that does not decode.
ServerGarbage(e) ==
    /\ net = {}
    /\ net' = net \cup {BadDatagram(e)}
    /\ UNCHANGED <<wire, aborted, mutex, sequence_number, response_map, reqVars, sent, rxVars>>

\* ---------------------------------------------------- receive_response
\* recv(): socket.recv + Message::decode_from_bytes
RxRecv(d) ==
    /\ ~Cancelled
    /\ rx_pc = "recv"
    /\ d \in net
    /\ net' = net \ {d}
    /\ IF d.ok
       THEN /\ rx_msg' = OkMsg([seq |-> d.seq, attr |-> d.attr, body |-> d.body])
            /\ rx_pc' = "lookup"
       ELSE /\ rx_msg' = FromDecodeError(d.error)
            /\ rx_pc' = "drain"
    /\ UNCHANGED <<wire, aborted, mutex, sequence_number, response_map, reqVars, sent, rx_sender, rx_result>>

\* recv(): socket.recv fails
RxRecvFails ==
    /\ ~Cancelled
    /\ rx_pc = "recv"
    /\ rx_msg' = IOError
    /\ rx_pc' = "drain"
    /\ UNCHANGED <<wire, aborted, mutex, sequence_number, response_map, reqVars, sent, net, rx_sender, rx_result>>

\* Err(error) => { lock; for (_, sender) in drain() { sender.send(Err) }; return Err }
\* Variant: the receiver returns the error without telling the senders.
DrainNone(ch, map, error) == ch

DrainAll(ch, map, error) ==
    [i \in Requests |->
        IF (\E s \in DOMAIN map : map[s] = i) /\ ReceiverAlive(i)
        THEN error ELSE ch[i]]

\* Variant: after telling the senders the receiver goes on receiving.
RxDrainAndContinue ==
    /\ ~Cancelled
    /\ rx_pc = "drain"
    /\ chan' = DrainAll(chan, response_map, rx_msg)
    /\ response_map' = EmptyMap
    /\ rx_result' = rx_msg
    /\ rx_pc' = "recv"
    /\ UNCHANGED <<wire, aborted, mutex, sequence_number, pc, op, seq, result, sent, net, rx_msg, rx_sender>>

RxDrain ==
    /\ ~Cancelled
    /\ rx_pc = "drain"
    /\ chan' = DrainAll(chan, response_map, rx_msg)
    /\ response_map' = EmptyMap
    /\ rx_result' = rx_msg
    /\ rx_pc' = "returned"
    /\ UNCHANGED <<wire, aborted, mutex, sequence_number, pc, op, seq, result, sent, net, rx_msg, rx_sender>>

\* Variant: the receiver takes the entry with the smallest key, whatever the
\* message's sequence number.
Oldest(map) == CHOOSE s \in DOMAIN map : \A t \in DOMAIN map : s <= t

RemoveSenderOldest(map, msg) ==
    IF DOMAIN map # {}
    THEN [sender |-> map[Oldest(map)], map |-> MapRemove(map, Oldest(map))]
    ELSE [sender |-> 0, map |-> map]

\* Variant: the receiver looks the sender up and leaves the entry in the map.
RemoveSenderKeep(map, msg) ==
    IF msg.seq \in DOMAIN map
    THEN [sender |-> map[msg.seq], map |-> map]
    ELSE [sender |-> 0, map |-> map]

\* response_map.lock().await.remove(&msg.sequence_number): the entry found
\* (sender 0: None) and the map that is left.
RemoveSender(map, msg) ==
    IF msg.seq \in DOMAIN map
    THEN [sender |-> map[msg.seq], map |-> MapRemove(map, msg.seq)]
    ELSE [sender |-> 0, map |-> map]

\* let sender = ...remove(..); match sender { None => return Err(InvalidResponse(..)), ..
RxRemove ==
    /\ ~Cancelled
    /\ rx_pc = "lookup"
    /\ IF RemoveSender(response_map, rx_msg.msg).sender # 0
       THEN /\ rx_sender' = RemoveSender(response_map, rx_msg.msg).sender
            /\ response_map' = RemoveSender(response_map, rx_msg.msg).map
            /\ rx_pc' = "fulfil"
            /\ UNCHANGED rx_result
       ELSE /\ rx_result' = Unexpected
            /\ rx_pc' = "returned"
            /\ UNCHANGED <<rx_sender, response_map>>
    /\ UNCHANGED <<wire, aborted, mutex, sequence_number, reqVars, sent, net, rx_msg>>

\* Some(sender) => _ = sender.send(Ok(msg))
RxFulfil ==
    /\ rx_pc = "fulfil"
    /\ chan' = SenderSend(chan, rx_sender, rx_msg)
    /\ rx_pc' = "recv"
    /\ rx_msg' = NoValue
    /\ rx_sender' = 0
    /\ UNCHANGED <<wire, aborted, mutex, sequence_number, response_map, pc, op, seq, result, sent, net, rx_result>>

\* ------------------------------------------------- the mutex, step by step
\* The same handlers with response_map.lock().await as a step of its own:
\* the task is suspended at lock().await until the mutex is free, and runs
\* without a suspension point from there to the drop of the guard.

\* send_request: response_map.lock().await completes
LockAcquire(i) ==
    /\ pc[i] = "lock" /\ mutex = Unlocked
    /\ mutex' = i
    /\ UNCHANGED <<wire, aborted, sequence_number, response_map, reqVars, sent, net, rxVars>>

\* Variant: the guard lives to the end of send_request.
InsertKeepingGuard(i) ==
    /\ pc[i] = "lock" /\ mutex = i
    /\ response_map' = MapInsert(response_map, seq[i], i)
    /\ chan' = IF seq[i] \in DOMAIN response_map
               THEN SenderDrop(chan, response_map[seq[i]])
               ELSE chan
    /\ pc' = [pc EXCEPT ![i] = "send"]
    /\ UNCHANGED <<wire, aborted, mutex, sequence_number, op, seq, result, sent, net, rxVars>>

\* send_request: map.insert(sequence_number, sender), and the guard is
\* dropped at the end of its block
InsertLocked(i) ==
    /\ pc[i] = "lock" /\ mutex = i
    /\ response_map' = MapInsert(response_map, seq[i], i)
    /\ chan' = IF seq[i] \in DOMAIN response_map
               THEN SenderDrop(chan, response_map[seq[i]])
               ELSE chan
    /\ pc' = [pc EXCEPT ![i] = "send"]
    /\ mutex' = Unlocked
    /\ UNCHANGED <<wire, aborted, sequence_number, op, seq, result, sent, net, rxVars>>

\* timeout_or_cancel drops the future at a suspension point: not between
\* the completion of lock().await and the drop of the guard.
AbandonSuspended(i) == mutex # i /\ Abandon(i)

\* receive_response: response_map.lock().await completes, in the Err arm
\* or before remove()
RxLock ==
    /\ rx_pc \in {"lookup", "drain"} /\ mutex = Unlocked
    /\ mutex' = ReceiverTask
    /\ UNCHANGED <<wire, aborted, sequence_number, response_map, reqVars, sent, net, rxVars>>

\* receive_response: remove(&msg.sequence_number); the guard is a temporary
\* of the `let sender = ..` statement
RxRemoveLocked ==
    /\ rx_pc = "lookup" /\ mutex = ReceiverTask
    /\ IF RemoveSender(response_map, rx_msg.msg).sender # 0
       THEN /\ rx_sender' = RemoveSender(response_map, rx_msg.msg).sender
            /\ response_map' = RemoveSender(response_map, rx_msg.msg).map
            /\ rx_pc' = "fulfil"
            /\ UNCHANGED rx_result
       ELSE /\ rx_result' = Unexpected
            /\ rx_pc' = "returned"
            /\ UNCHANGED <<rx_sender, response_map>>
    /\ mutex' = Unlocked
    /\ UNCHANGED <<wire, aborted, sequence_number, reqVars, sent, net, rx_msg>>

\* receive_response: the Err arm with the guard held; the guard is dropped
\* by `return Err(error)`
RxDrainLocked ==
    /\ rx_pc = "drain" /\ mutex = ReceiverTask
    /\ chan' = DrainAll(chan, response_map, rx_msg)
    /\ response_map' = EmptyMap
    /\ rx_result' = rx_msg
    /\ rx_pc' = "returned"
    /\ mutex' = Unlocked
    /\ UNCHANGED <<wire, aborted, sequence_number, pc, op, seq, result, sent, net, rx_msg, rx_sender>>

\* ------------------------------------------------------- real-time clock
\* u8::to_string: the decimal digits of v, most significant first
DecimalDigits(v) ==
    IF v < 10 THEN <<v>>
    ELSE IF v < 100 THEN <<v \div 10, v % 10>>
    ELSE <<v \div 100, (v \div 10) % 10, v % 10>>

\* format!("{:X}", byte): the hexadecimal digits of a byte, no leading zero
HexDigits(byte) == IF byte < 16 THEN <<byte>> ELSE <<byte \div 16, byte % 16>>

\* u8::from_str_radix / str::parse::<u8>: the value of a digit string in
\* the radix, an error on a digit outside the radix or a value above 255.
from_str_radix(digits, radix) ==
    LET value[k \in 0 .. Len(digits)] ==
            IF k = 0 THEN 0 ELSE value[k - 1] * radix + digits[k]
    IN IF (\E k \in DOMAIN digits : digits[k] >= radix) \/ value[Len(digits)] > 255
       THEN [ok |-> FALSE]
       ELSE [ok |-> TRUE, value |-> value[Len(digits)]]

\* Variant: a field is written as the plain binary byte.
RtcWriteBinary(v) == [ok |-> TRUE, byte |-> v]

\* RealTimeClock::encode, the closure `write`
RtcWrite(v) ==
    IF from_str_radix(DecimalDigits(v), 16).ok
    THEN [ok |-> TRUE, byte |-> from_str_radix(DecimalDigits(v), 16).value]
    ELSE [ok |-> FALSE, error |-> "Overflow"]

\* RealTimeClock::decode, the closure `read`, on a byte that is there
RtcRead(byte) ==
    IF from_str_radix(HexDigits(byte), 10).ok
    THEN [ok |-> TRUE, value |-> from_str_radix(HexDigits(byte), 10).value]
    ELSE [ok |-> FALSE, error |-> InvalidData("Invalid time data")]

\* struct RealTimeClock: the fields in declaration order
RtcFields == <<"week", "week_day", "year", "month", "day", "hour", "minute", "second">>

\* impl Encodable for RealTimeClock
RealTimeClockEncode(rtc) ==
    IF \E k \in 1 .. 8 : ~RtcWrite(rtc[RtcFields[k]]).ok
    THEN [ok |-> FALSE, error |-> "Overflow"]
    ELSE [ok |-> TRUE, bytes |-> [k \in 1 .. 8 |-> RtcWrite(rtc[RtcFields[k]]).byte]]

\* impl Decodable for RealTimeClock: the eight reads in order, the first
\* one that fails decides the error.
RealTimeClockDecode(b) ==
    LET Fails(k) == Len(b) < k \/ ~RtcRead(b[k]).ok
    IN IF \E k \in 1 .. 8 : Fails(k)
       THEN LET first == CHOOSE k \in 1 .. 8 : Fails(k) /\ \A j \in 1 .. (k - 1) : ~Fails(j)
            IN [ok |-> FALSE, error |-> IF Len(b) < first THEN MissingData ELSE RtcRead(b[first]).error]
       ELSE [ok |-> TRUE,
             rtc |-> [f \in {RtcFields[k] : k \in 1 .. 8} |->
                        RtcRead(b[CHOOSE k \in 1 .. 8 : RtcFields[k] = f]).value]]

\* -------------------------------------------------------------- the codec
\* Values put through the codec: messages, request datagrams and
\* write-bit-array requests.
CodecSequenceNumbers == {0, 258, 65535}
CodecAttributeBytes == {0, 1, 2, 3, 255}
CodecBodies == {<< >>, <<0>>, <<0, 0, 0, 7>>, <<255, 254, 1, 2, 3>>}
CodecMessages ==
    { [seq |-> n, attr |-> TelegramAttributeFrom(b), body |-> body] :
        n \in CodecSequenceNumbers, b \in CodecAttributeBytes, body \in CodecBodies }

\* CommandId::ReadSBusStationNumber = 0x1D, CommandId::ReadFirmwareVersion = 0x20
CodecRequests ==
    { [seq |-> n, station |-> st, command_id |-> c] :
        n \in {0, 1}, st \in {0, 254}, c \in {29, 32} }

BoolLengths == {1, 2, 3, 8, 9, 16, 128}
BoolPatterns(n) ==
    { [k \in 1 .. n |-> TRUE], [k \in 1 .. n |-> k % 2 = 1], [k \in 1 .. n |-> k % 3 = 0] }
CodecWriteOutputs ==
    { [address |-> a, values |-> v] :
        a \in {0, 100, 65535}, v \in UNION {BoolPatterns(n) : n \in BoolLengths} }

CodecValue(what, input) ==
    [what |-> what, stage |-> "input", input |-> input,
     bytes |-> << >>, tampered |-> 0, output |-> NoValue]

InitCodec ==
    /\ InitClient
    /\ wire \in {CodecValue("message", m) : m \in CodecMessages}
              \cup {CodecValue("request", r) : r \in CodecRequests}
              \cup {CodecValue("write_outputs", x) : x \in CodecWriteOutputs}

\* Bytes received from the device, to be decoded as `what`.
CodecReceived(what, bytes) ==
    [what |-> what, stage |-> "encoded", input |-> NoValue,
     bytes |-> bytes, tampered |-> 0, output |-> NoValue]

\* Real-time clocks: one field of a valid clock takes every value of a
\* byte; received clocks: one byte of a valid encoding takes every value,
\* or the encoding is cut short.
RtcBase ==
    [week |-> 51, week_day |-> 4, year |-> 24, month |-> 12,
     day |-> 31, hour |-> 23, minute |-> 58, second |-> 59]
RtcValues == {[RtcBase EXCEPT ![RtcFields[k]] = v] : k \in 1 .. 8, v \in 0 .. 255}
RtcBytes ==
    {[RealTimeClockEncode(RtcBase).bytes EXCEPT ![k] = byte] : k \in 1 .. 8, byte \in 0 .. 255}
    \cup {SubSeq(RealTimeClockEncode(RtcBase).bytes, 1, n) : n \in 0 .. 7}

\* Packed booleans: every list of up to MaxBools booleans, and received
\* bytes read as `length` booleans (too few, exactly enough, or more bytes
\* than the booleans need).
MaxBools == 9
BoolLists == UNION {[1 .. n -> BOOLEAN] : n \in 0 .. MaxBools}
                \cup UNION {BoolPatterns(n) : n \in {16, 17}}
BoolBytes == {<< >>, <<0>>, <<165>>, <<255>>, <<165, 2>>, <<255, 255>>, <<90, 129, 7>>}
BoolReceived ==
    {[CodecReceived("bools_bytes", b) EXCEPT !.input = n] : b \in BoolBytes, n \in 0 .. 17}

\* Device floats. An f64 is written [class, sign, mantissa, exponent]: NaN,
\* an infinity of that sign, or the finite value
\* sign * (mantissa / 2^24) * 2^exponent, a zero of that sign when the
\* mantissa is 0. Every result of sbus_float_to_ieee is such a value, exactly.
F64(class, sign, mantissa, exponent) ==
    [class |-> class, sign |-> sign, mantissa |-> mantissa, exponent |-> exponent]

\* utils::sbus_float_to_ieee: s = bit 7, e = bits 0-6 minus 64,
\* m = bits 8-31 over 2^24; the result is s * 2^e * m
sbus_float_to_ieee(value) ==
    F64("finite",
        IF ((value % 256) \div 128) = 1 THEN -1 ELSE 1,
        (value \div 256) % 16777216,
        (value % 128) - 64)

\* The i32 whose bits 8-31 are m and whose low byte is low.
I32FromBits(m, low) ==
    IF m >= 8388608 THEN (m - 16777216) * 256 + low ELSE m * 256 + low

RECURSIVE BitLength(_)
BitLength(n) == IF n = 0 THEN 0 ELSE 1 + BitLength(n \div 2)

\* f64::ceil(f64::log2(value)) of a finite value above zero: log2 is exact
\* on a power of two and strictly between two integers otherwise.
CeilLog2(value) ==
    IF value.mantissa = 2 ^ (BitLength(value.mantissa) - 1)
    THEN value.exponent + BitLength(value.mantissa) - 25
    ELSE value.exponent + BitLength(value.mantissa) - 24

Clamp(x, min, max) == IF x < min THEN min ELSE IF x > max THEN max ELSE x

\* utils::ieee_to_sbus_float. For a value below zero log2 is NaN, and for a
\* zero it is -inf and m is 0/0 = NaN: `NaN as u32` is 0 and the clamp of
\* -inf is 0; signum is -1.0 for every value with the sign bit, -0.0 too.
\* (m * 2^24) as u32 is shifted left by 8 in 32 bits: only its low 24 bits stay.
ieee_to_sbus_float(value) ==
    IF value.class = "nan" THEN 0
    ELSE IF value.class = "infinite"
         THEN I32FromBits(16777215, (IF value.sign = -1 THEN 128 ELSE 0) + 127)
    ELSE IF value.sign = -1 THEN I32FromBits(0, 128)
    ELSE IF value.mantissa = 0 THEN I32FromBits(0, 0)
    ELSE I32FromBits((value.mantissa * 2 ^ (value.exponent - CeilLog2(value))) % 16777216,
                     Clamp(CeilLog2(value) + 64, 0, 127))

\* Words received as device floats: a few mantissas with every low byte
\* (sign and exponent); and f64 values to be sent.
FloatMantissas == {0, 1, 4194304, 8388608, 8388609, 10113024, 12582912, 16777215}
FloatWords == {I32FromBits(m, low) : m \in FloatMantissas, low \in 0 .. 255}
FloatValues ==
    {F64("nan", 1, 0, 0), F64("infinite", 1, 0, 0), F64("infinite", -1, 0, 0),
     F64("finite", 1, 10113024, 11), F64("finite", -1, 10113024, 11),
     F64("finite", 1, 8388608, 1), F64("finite", 1, 0, 0), F64("finite", -1, 0, 0)}
FloatReceived(x) ==
    [what |-> "sbus_float", stage |-> "received", input |-> x, bytes |-> << >>,
     tampered |-> 0, output |-> NoValue]
FloatToSend(value) ==
    [what |-> "f64", stage |-> "ieee", input |-> value, bytes |-> << >>,
     tampered |-> 0, output |-> value]

\* Bodies received in answer to a read of counters, registers or timers:
\* every prefix of three words (1, -2, 1234).
IntBodies == {SubSeq(<<0, 0, 0, 1, 255, 255, 255, 254, 0, 0, 4, 210>>, 1, n) : n \in 0 .. 12}

\* Datagrams received with a short length field: length n, followed by
\* nothing, by other bytes, or by the checksum of the length field.
ShortDatagrams ==
    {write_u32(n) \o rest : n \in 0 .. 6,
                            rest \in {<< >>, <<0>>, <<255, 255>>, <<1, 0, 0, 5, 1, 0, 0>>}}
    \cup {write_u32(n) \o write_u16(crc16(write_u32(n))) : n \in 0 .. 6}
    \cup {<<0, 0, 0>>, <<0, 0, 1, 0>>}

\* crc16 run one step at a time over data: `crc` is the register, `byte`
\* the number of bytes taken, `bit` the iterations of the inner loop left.
CrcInputs ==
    {<< >>, <<49, 50, 51, 52, 53, 54, 55, 56, 57>>, <<0, 0, 0, 8, 0, 0, 0, 0, 0>>,
     <<255, 255, 255>>, <<128, 0>>}
    \cup {<<b>> : b \in 0 .. 255}
CrcValue(data) ==
    [what |-> "crc", stage |-> "running", input |-> data, bytes |-> << >>,
     tampered |-> 0, output |-> [crc |-> 0, byte |-> 0, bit |-> 0]]

muxVars == <<sequence_number, response_map, reqVars, sent, net, rxVars, aborted, mutex>>

\* encode_to_bytes of the value, by its type
EncodeValue(what, input) ==
    IF what = "message" THEN [ok |-> TRUE, bytes |-> MessageEncode(input)]
    ELSE IF what = "request"
         THEN [ok |-> TRUE,
               bytes |-> RequestDatagram(input.seq, input.station, input.command_id, << >>)]
    ELSE IF what = "write_outputs" THEN WriteOutputsRequestEncode(input)
    ELSE IF what = "bools" THEN [ok |-> TRUE, bytes |-> write_bools(input)]
    ELSE RealTimeClockEncode(input)

\* encode_to_bytes
CodecEncode ==
    /\ wire.stage = "input"
    /\ wire' = IF EncodeValue(wire.what, wire.input).ok
               THEN [wire EXCEPT !.stage = "encoded",
                                 !.bytes = EncodeValue(wire.what, wire.input).bytes]
               ELSE [wire EXCEPT !.stage = "failed",
                                 !.output = EncodeValue(wire.what, wire.input)]
    /\ UNCHANGED muxVars

\* One byte of a datagram changes on the way.
TamperValues == {0, 1, 127, 255}
CodecTamper(k, v) ==
    /\ wire.stage = "encoded" /\ wire.what \in {"message", "request"}
    /\ wire.tampered = 0
    /\ k \in DOMAIN wire.bytes /\ k >= Len(wire.bytes) - 1
    /\ wire.bytes[k] # v
    /\ wire' = [wire EXCEPT !.tampered = k, !.bytes = [wire.bytes EXCEPT ![k] = v]]
    /\ UNCHANGED muxVars

\* decode_from_bytes of the bytes, by the type expected
DecodeBytes(what, b) ==
    IF what \in {"message", "request", "datagram"} THEN MessageDecode(b)
    ELSE IF what = "write_outputs" THEN WriteOutputsRequestDecode(b)
    ELSE IF what = "ints_bytes" THEN ReadIntsResponseDecode(b)
    ELSE RealTimeClockDecode(b)

\* The decoder applied to the bytes; packed booleans are read with the
\* number of booleans the caller asked for.
DecodeValue(w) ==
    IF w.what = "bools" THEN read_bools(w.bytes, Len(w.input))
    ELSE IF w.what = "bools_bytes" THEN read_bools(w.bytes, w.input)
    ELSE DecodeBytes(w.what, w.bytes)

\* decode_from_bytes
CodecDecode ==
    /\ wire.stage = "encoded"
    /\ wire' = [wire EXCEPT !.stage = "decoded", !.output = DecodeValue(wire)]
    /\ UNCHANGED muxVars

\* crc16: `crc ^= (*byte as u32) << 8` for the next byte of data
CrcByte ==
    /\ wire.what = "crc" /\ wire.stage = "running"
    /\ wire.output.bit = 0 /\ wire.output.byte < Len(wire.input)
    /\ wire' = [wire EXCEPT !.output =
                    [crc |-> Xor(wire.output.crc, wire.input[wire.output.byte + 1] * 256),
                     byte |-> wire.output.byte + 1,
                     bit |-> 8]]
    /\ UNCHANGED muxVars

\* crc16: one iteration of `for _ in 0..8`
CrcBit ==
    /\ wire.what = "crc" /\ wire.stage = "running"
    /\ wire.output.bit > 0
    /\ wire' = [wire EXCEPT !.output.crc = crc16_bit(wire.output.crc),
                            !.output.bit = wire.output.bit - 1]
    /\ UNCHANGED muxVars

\* crc16: `crc as u16` when the data is used up
CrcReturn ==
    /\ wire.what = "crc" /\ wire.stage = "running"
    /\ wire.output.bit = 0 /\ wire.output.byte = Len(wire.input)
    /\ wire' = [wire EXCEPT !.stage = "returned",
                            !.output.crc = wire.output.crc % 65536]
    /\ UNCHANGED muxVars

\* sbus_float_to_ieee of a received word
FloatRead ==
    /\ wire.what = "sbus_float" /\ wire.stage = "received"
    /\ wire' = [wire EXCEPT !.stage = "ieee", !.output = sbus_float_to_ieee(wire.input)]
    /\ UNCHANGED muxVars

\* ieee_to_sbus_float of an f64
FloatWrite ==
    /\ wire.what \in {"sbus_float", "f64"} /\ wire.stage = "ieee"
    /\ wire' = [wire EXCEPT !.stage = "sbus",
                            !.output = [ieee |-> wire.output,
                                        sbus |-> ieee_to_sbus_float(wire.output)]]
    /\ UNCHANGED muxVars

\* receive_response: the datagram is the one read from the socket
CodecArrive ==
    /\ wire.stage = "decoded" /\ wire.what = "message"
    /\ net = {}
    /\ net' = {wire.output}
    /\ wire' = [wire EXCEPT !.stage = "arrived"]
    /\ UNCHANGED <<sequence_number, response_map, reqVars, sent, rxVars, aborted, mutex>>

\* ---------------------------------------------------------- vocabulary
InMap(i) == \E s \in DOMAIN response_map : response_map[s] = i
Registered(i) == seq[i] \in DOMAIN response_map /\ response_map[seq[i]] = i
InFlight(i) == pc[i] \in {"lock", "send", "await"}
Awaiting(i) == pc[i] = "await" /\ chan[i] = Empty
Drained == rx_pc = "returned" /\ rx_result # Unexpected

\* ------------------------------------------------------- specifications
Next ==
    \/ \E i \in Requests, o \in MuxOps : Call(i, o)
    \/ \E i \in Requests : Insert(i)
    \/ \E i \in Requests : Send(i)
    \/ \E i \in Requests : Await(i)
    \/ \E i \in Requests : Abandon(i)
    \/ \E i \in Requests, a \in TelegramAttributes : ServerReply(i, a)
    \/ \E s \in StraySequenceNumbers : ServerStray(s)
    \/ \E e \in DecodeErrors : ServerGarbage(e)
    \/ \E d \in net : RxRecv(d)
    \/ RxRecvFails
    \/ RxDrain
    \/ RxRemove
    \/ RxFulfil

Spec == Init /\ [][Next]_vars

\* The scheduler runs every task that can take a step; nothing obliges a
\* caller to call or to give up, the device to answer, or the socket to fail.
Fairness ==
    /\ \A i \in Requests : WF_vars(Insert(i)) /\ WF_vars(Send(i)) /\ WF_vars(Await(i))
    /\ WF_vars(\E d \in net : RxRecv(d))
    /\ WF_vars(RxDrain)
    /\ WF_vars(RxRemove)
    /\ WF_vars(RxFulfil)

FairSpec == Spec /\ Fairness

\* Argument validation: request 1 is in flight with a well-behaved device
\* while request 2 is called with every boundary argument.
NextArgs ==
    \/ \E o \in MuxOps : Call(1, o)
    \/ \E o \in ArgOps : Call(2, o)
    \/ \E i \in {1, 2} : Insert(i)
    \/ \E i \in {1, 2} : Send(i)
    \/ \E i \in {1, 2} : Await(i)
    \/ \E i \in {1, 2} : ServerReply(i, ResponseType(op[i]))
    \/ \E d \in net : RxRecv(d)
    \/ RxRemove
    \/ RxFulfil

SpecArgs == Init /\ [][NextArgs]_vars

\* Typed results: request 1 performs one operation of every reply shape and
\* the device answers with every attribute and with payloads of several
\* lengths and acknowledge codes, while request 2 waits for its reply.
TypedOps ==
    { Op("read", "registers", 100, 2), Op("read", "flags", 10, 3),
      Op("read", "inputs", 0, 8), Op("read", "outputs", 5, 9),
      Op("write", "registers", 100, 1), Op("write", "flags", 10, 3) }
AttributeBytes == {0, 1, 2, 255}
AcknowledgeCodes == {0, 1, 4, 5, 65535}
AnswerBodies(i) ==
    IF i \in Transmitted
    THEN {ReplyBody(i, op[i])} \cup {write_u16(c) : c \in AcknowledgeCodes} \cup {<<0>>}
    ELSE {}

NextTyped ==
    \/ \E o \in TypedOps : Call(1, o)
    \/ \E o \in MuxOps : Call(2, o)
    \/ \E i \in {1, 2} : Insert(i)
    \/ \E i \in {1, 2} : Send(i)
    \/ \E i \in {1, 2} : Await(i)
    \/ \E b \in AttributeBytes, body \in AnswerBodies(1) :
          Awaiting(1) /\ ServerAnswer(1, TelegramAttributeFrom(b), body)
    \/ \E d \in net : RxRecv(d)
    \/ RxRemove
    \/ RxFulfil

SpecTyped == Init /\ [][NextTyped]_vars

\* Dropping the client: requests are served or given up, the client is
\* dropped, and the device goes on sending.
NextDrop ==
    \/ \E i \in {1, 2}, o \in MuxOps : Call(i, o)
    \/ \E i \in {1, 2} : Insert(i)
    \/ \E i \in {1, 2} : Send(i)
    \/ \E i \in {1, 2} : Await(i)
    \/ \E i \in {1, 2} : Abandon(i)
    \/ Drop
    \/ \E i \in {1, 2} : ServerReply(i, ResponseType(op[i]))
    \/ \E s \in StraySequenceNumbers : ServerStray(s)
    \/ \E d \in net : RxRecv(d)
    \/ RxRemove
    \/ RxFulfil

SpecDrop == Init /\ [][NextDrop]_vars

\* The codec: a value is encoded, possibly damaged, and decoded; a message
\* then arrives at a client on which request 1 is in flight.
NextCodec ==
    \/ CodecEncode
    \/ \E k \in 1 .. 24, v \in TamperValues : CodecTamper(k, v)
    \/ CodecDecode
    \/ CodecArrive
    \/ \E o \in MuxOps : Call(1, o)
    \/ Insert(1)
    \/ Send(1)
    \/ Await(1)
    \/ \E d \in net : RxRecv(d)
    \/ RxDrain
    \/ RxRemove
    \/ RxFulfil

SpecCodec == InitCodec /\ [][NextCodec]_vars

\* The multiplexer with the mutex taken and released in steps of their
\* own.  tokio's Mutex hands the lock to its waiters in the order they
\* asked, so a task that keeps asking while the lock is released again and
\* again gets it (strong fairness); a task that runs goes on running (weak
\* fairness); the device and the callers' timeouts are under no obligation.
\* The device speaks when asked: it answers a request that is awaiting, and
\* an answer may arrive damaged.
NextLock ==
    \/ \E i \in Requests, o \in MuxOps : Call(i, o)
    \/ \E i \in Requests : LockAcquire(i)
    \/ \E i \in Requests : InsertLocked(i)
    \/ \E i \in Requests : Send(i)
    \/ \E i \in Requests : Await(i)
    \/ \E i \in Requests : AbandonSuspended(i)
    \/ \E i \in Requests : Awaiting(i) /\ ServerReply(i, TelegramResponse)
    \/ (\E i \in Requests : Awaiting(i)) /\ ServerGarbage(MissingData)
    \/ \E d \in net : RxRecv(d)
    \/ RxLock
    \/ RxRemoveLocked
    \/ RxDrainLocked
    \/ RxFulfil

SpecLock == Init /\ [][NextLock]_vars

FairnessLock ==
    /\ \A i \in Requests : SF_vars(LockAcquire(i)) /\ WF_vars(InsertLocked(i))
    /\ SF_vars(RxLock) /\ WF_vars(RxRemoveLocked) /\ WF_vars(RxDrainLocked)

FairSpecLock == SpecLock /\ FairnessLock

\* The client after the counter has gone once around: request 1 took the
\* number s, registered and transmitted, and no reply has reached it; 65535
\* later requests took the numbers s+1 .. s-1 and are over (each served, or
\* given up after its reply was taken), so that the counter stands at s
\* again with request 1 still awaiting.
InitWrap ==
    /\ sequence_number \in StartSequenceNumbers
    /\ response_map = MapInsert(EmptyMap, sequence_number, 1)
    /\ pc = [i \in Requests |-> IF i = 1 THEN "await" ELSE "idle"]
    /\ op \in {[i \in Requests |-> IF i = 1 THEN o ELSE NoValue] : o \in MuxOps}
    /\ seq = [i \in Requests |-> IF i = 1 THEN sequence_number ELSE -1]
    /\ chan = [i \in Requests |-> IF i = 1 THEN Empty ELSE NoValue]
    /\ result = [i \in Requests |-> NoValue]
    /\ sent = <<[seq |-> sequence_number, req |-> 1]>>
    /\ net = {}
    /\ rx_pc = "recv"
    /\ rx_msg = NoValue
    /\ rx_sender = 0
    /\ rx_result = NoValue
    /\ aborted = FALSE
    /\ mutex = Unlocked
    /\ wire = NoValue

SpecWrap == InitWrap /\ [][Next]_vars

\* Values of every encodable type go through encode and decode, and bytes
\* received from the device go through decode.
InitValues ==
    /\ InitClient
    /\ wire \in {CodecValue("rtc", x) : x \in RtcValues}
              \cup {CodecReceived("rtc_bytes", b) : b \in RtcBytes}
              \cup {CodecValue("bools", x) : x \in BoolLists}
              \cup BoolReceived
              \cup {CodecReceived("ints_bytes", b) : b \in IntBodies}
              \cup {CodecReceived("datagram", b) : b \in ShortDatagrams}
              \cup {CrcValue(d) : d \in CrcInputs}
              \cup {FloatReceived(x) : x \in FloatWords}
              \cup {FloatToSend(v) : v \in FloatValues}

NextValues ==
    \/ CodecEncode
    \/ CodecDecode
    \/ CrcByte
    \/ CrcBit
    \/ CrcReturn
    \/ FloatRead
    \/ FloatWrite

SpecValues == InitValues /\ [][NextValues]_vars

C2_SlotRegisteredBeforeSend ==
    /\ [](\A i \in Requests :
            (Awaiting(i) /\ rx_sender # i /\ ~Drained) => Registered(i))
    /\ [][(rx_pc = "lookup" /\ rx_pc' = "returned") =>
            \A i \in Requests : Awaiting(i) => rx_msg.msg.seq # seq[i]]_vars

\* The reply to request 1 is on its way before any reply has been taken, and
\* the slot of request 1 is in the table.
C2_Witness ==
    /\ Awaiting(1) /\ Registered(1)
    /\ \E a \in TelegramAttributes : Datagram(seq[1], a, ReplyBody(1, op[1])) \in net
    /\ rx_pc = "recv"

\* C3: when the receiver gives up on a datagram that does not decode, every
\* request awaiting its slot is handed InvalidResponse with the decode
\* reason, the table is left empty and the receiver returns that error; a
\* request handed an error returns it.
C3_DecodeFailureFanOut ==
    /\ [][(rx_pc = "drain" /\ rx_pc' = "returned" /\ rx_msg.err = "InvalidResponse") =>
            /\ \A i \in Requests : Awaiting(i) =>
                  /\ chan'[i] = rx_msg
                  /\ chan'[i].text \in {"The server sent invalid data",
                                        "Checksum mismatch", "Invalid byte length"}
            /\ response_map' = EmptyMap
            /\ rx_result' = rx_msg]_vars
    /\ [][\A d \in net : (d \notin net' /\ ~d.ok) =>
            rx_msg' = InvalidResponse(IF d.error.tag = "MissingData"
                                      THEN "The server sent invalid data"
                                      ELSE d.error.text)]_vars
    /\ [](\A i \in Requests :
            (pc[i] = "done" /\ i \in Transmitted /\ chan[i].kind = "Err") => result[i] = chan[i])

\* Two requests were awaiting, the receiver returned a checksum error, and
\* both requests returned it.
C3_Witness ==
    /\ rx_pc = "returned" /\ rx_result = InvalidResponse("Checksum mismatch")
    /\ response_map = EmptyMap
    /\ \A i \in {1, 2} : pc[i] = "done" /\ result[i] = InvalidResponse("Checksum mismatch")
    /\ Len(sent) = 2

\* C4: when the receiver returns because a message's sequence number is not
\* in the table, it returns InvalidResponse and every slot then in the table
\* is handed that error.
C4_UnexpectedFanOut ==
    [][(rx_pc = "lookup" /\ rx_pc' = "returned") =>
          /\ rx_result'.err = "InvalidResponse"
          /\ \A i \in Requests : (InMap(i) /\ InFlight(i)) => chan'[i] = rx_result']_vars

\* C5: a request that returned an IO error has no slot left in the table.
C5_SendFailureRemovesSlot ==
    \A i \in Requests : (pc[i] = "done" /\ result[i] = IOError) => ~Registered(i)

C7_AbandonedEntryReclaimed ==
    \A i \in Requests : (pc[i] = "abandoned" /\ Registered(i)) ~> ~Registered(i)

C9_FulfilledAtMostOnce ==
    /\ [](\A s \in DOMAIN response_map : chan[response_map[s]] = Empty)
    /\ [][\A i \in Requests : chan[i].kind \in {"Ok", "Err"} => chan'[i] = chan[i]]_vars

\* Request 1 was served, a second datagram with its sequence number arrived,
\* and the receiver returned without touching the slot again.
C9_Witness ==
    /\ 1 \in Transmitted
    /\ chan[1] = OkMsg([seq |-> seq[1], attr |-> TelegramResponse, body |-> ReplyBody(1, op[1])])
    /\ rx_pc = "returned" /\ rx_result = Unexpected
    /\ rx_msg.msg.seq = seq[1] /\ rx_msg.msg.attr = TelegramAcknowledge

\* C10: a call with length 0, length above the cap of its kind (128 for
\* flags, 32 otherwise) or address + length - 1 above 0xFFFF returns
\* ArgumentsOutOfRange and leaves the counter, the table and the transmitted
\* datagrams as they were; any other call is not rejected.
C10_ValidationFrame ==
    [][\A i \in Requests : (pc[i] = "idle" /\ pc'[i] # "idle") =>
          IF \/ op'[i].length = 0
             \/ op'[i].length > (IF op'[i].kind = "flags" THEN 128 ELSE 32)
             \/ op'[i].address + op'[i].length - 1 > 65535
          THEN /\ pc'[i] = "done"
               /\ result'[i].err = "ArgumentsOutOfRange"
               /\ UNCHANGED <<sequence_number, response_map, sent>>
          ELSE /\ pc'[i] = "lock"
               /\ result'[i] = NoValue]_vars

\* A call of legal length that runs past the end of the address space was
\* rejected while request 1 was in flight.
C10_Witness ==
    /\ pc[2] = "done" /\ result[2] = ArgumentsOutOfRange
    /\ op[2].length = 32 /\ op[2].address = 65505
    /\ Awaiting(1) /\ Registered(1)
    /\ sent = <<[seq |-> seq[1], req |-> 1]>>

\* C13: a request that passes validation takes the current value of the
\* counter as its sequence number and advances the counter by exactly one
\* modulo 2^16, without an error at the wrap from 65535 to 0; no other step
\* moves the counter, and two requests that are in flight together never
\* hold the same sequence number.
C13_SequenceNumbersAdvanceByOne ==
    /\ [](\A i, j \in Requests :
            (i # j /\ InFlight(i) /\ InFlight(j)) => seq[i] # seq[j])
    /\ [][IF \E i \in Requests : seq'[i] # seq[i]
          THEN \E i \in Requests :
                 /\ pc[i] = "idle" /\ pc'[i] = "lock"
                 /\ seq'[i] = sequence_number
                 /\ sequence_number' = (sequence_number + 1) % 65536
                 /\ \A j \in Requests \ {i} : seq'[j] = seq[j]
          ELSE sequence_number' = sequence_number]_vars

\* Request 1 took 65535, the counter wrapped, request 2 took 0, and both
\* are in flight.
C13_Witness ==
    /\ seq[1] = 65535 /\ seq[2] = 0 /\ sequence_number = 1
    /\ InFlight(1) /\ InFlight(2)
    /\ pc[1] = "await" /\ pc[2] = "await"

\* C11: a request that was handed a message returns
\* InvalidResponse("Telegram attribute mismatch") exactly when the attribute
\* of the message differs from the one its operation expects (Response for
\* a read, Acknowledge for a write), the attributes Request and Unknown(n)
\* included; the receiver that delivered the message goes on receiving.
C11_AttributeMismatch ==
    /\ [](\A i \in Requests :
            (pc[i] = "done" /\ chan[i].kind = "Ok") =>
                (result[i] = InvalidResponse("Telegram attribute mismatch")
                   <=> chan[i].msg.attr.tag #
                         (IF op[i].dir = "read" THEN "Response" ELSE "Acknowledge")))
    /\ [](rx_pc = "returned" => rx_result = Unexpected)
    /\ [][rx_pc = "fulfil" => rx_pc' \in {"fulfil", "recv"}]_vars

\* Request 1 was answered with an attribute outside the three telegram
\* kinds and returned the mismatch error; the receiver is receiving again
\* and request 2 is still waiting.
C11_Witness ==
    /\ pc[1] = "done" /\ chan[1].kind = "Ok" /\ chan[1].msg.attr.tag = "Unknown"
    /\ chan[1].msg.body = ReplyBody(1, op[1])
    /\ result[1] = InvalidResponse("Telegram attribute mismatch")
    /\ rx_pc = "recv" /\ rx_result = NoValue
    /\ Awaiting(2) /\ Registered(2)

\* C12: a write that was handed an Acknowledge message carrying a code
\* returns Ok(true) when the code is 0 and Ok(false) for every other code,
\* never an error; returning leaves the other requests, their channels and
\* the table as they were.
C12_WriteAcknowledge ==
    /\ [](\A i \in Requests :
            (/\ pc[i] = "done" /\ op[i].dir = "write" /\ chan[i].kind = "Ok"
             /\ chan[i].msg.attr.tag = "Acknowledge" /\ Len(chan[i].msg.body) >= 2) =>
                result[i] = OkValue(chan[i].msg.body[1] = 0 /\ chan[i].msg.body[2] = 0))
    /\ [][\A i \in Requests : (pc[i] = "await" /\ pc'[i] = "done") =>
            /\ response_map' = response_map /\ chan' = chan
            /\ \A j \in Requests \ {i} : pc'[j] = pc[j] /\ result'[j] = result[j]]_vars

\* A write was answered with the unknown code 65535 and returned Ok(false)
\* while request 2 is still waiting with its slot in the table.
C12_Witness ==
    /\ pc[1] = "done" /\ op[1].dir = "write" /\ chan[1].kind = "Ok"
    /\ chan[1].msg.attr = TelegramAcknowledge /\ chan[1].msg.body = <<255, 255>>
    /\ result[1] = OkValue(FALSE)
    /\ Awaiting(2) /\ Registered(2)

\* C18: a read of flags, inputs or outputs of N values that succeeds
\* returns exactly N booleans.
C18_ReadBitsReturnsExactlyN ==
    \A i \in Requests :
        (/\ pc[i] = "done" /\ op[i].dir = "read"
         /\ op[i].kind \in {"flags", "inputs", "outputs"} /\ result[i].kind = "Ok") =>
            Len(result[i].value) = op[i].length

C15_MessageRoundTrip ==
    (wire.what = "message" /\ wire.stage \in {"decoded", "arrived"} /\ wire.tampered = 0) =>
        /\ wire.output.ok
        /\ wire.output.seq = wire.input.seq
        /\ wire.output.attr = wire.input.attr
        /\ wire.output.body = wire.input.body

\* A message with sequence number 65535, an attribute outside the three
\* telegram kinds and a five-byte body went through encode and decode.
C15_Witness ==
    /\ wire.what = "message" /\ wire.stage = "decoded" /\ wire.tampered = 0
    /\ wire.input.seq = 65535 /\ wire.input.attr.tag = "Unknown"
    /\ Len(wire.input.body) = 5
    /\ Len(wire.bytes) = 16
    /\ wire.output.ok

\* C16: a datagram whose final checksum byte was changed decodes to
\* InvalidData("Checksum mismatch"); the receiver turns it into
\* InvalidResponse("Checksum mismatch") and returns that, and no request is
\* handed a message.
C16_TamperedChecksum ==
    (wire.what = "message" /\ wire.tampered # 0 /\ wire.tampered = Len(wire.bytes)) =>
        /\ wire.stage \in {"decoded", "arrived"} =>
              wire.output = [ok |-> FALSE, error |-> InvalidData("Checksum mismatch")]
        /\ rx_pc = "drain" => rx_msg = InvalidResponse("Checksum mismatch")
        /\ rx_pc = "returned" => rx_result = InvalidResponse("Checksum mismatch")
        /\ rx_pc \notin {"lookup", "fulfil"}
        /\ \A i \in Requests :
              /\ chan[i].kind # "Ok"
              /\ chan[i].kind = "Err" => chan[i] = InvalidResponse("Checksum mismatch")
              /\ result[i].kind \notin {"Ok"}

\* The damaged datagram arrived while request 1 was waiting: the receiver
\* returned the checksum error and request 1 returned it too.
C16_Witness ==
    /\ wire.what = "message" /\ wire.stage = "arrived"
    /\ wire.tampered = Len(wire.bytes)
    /\ rx_pc = "returned" /\ rx_result = InvalidResponse("Checksum mismatch")
    /\ pc[1] = "done" /\ result[1] = InvalidResponse("Checksum mismatch")

\* C17 as stated: the datagram of ReadFirmwareVersion for station 0 with
\* sequence number 0 starts with 00 00 00 0B 01 00 00 00 01 00 20 and ends
\* with the CRC-16 of these 11 bytes.
C17_DatagramAsStated ==
    (/\ wire.what = "request" /\ wire.stage = "encoded" /\ wire.tampered = 0
     /\ wire.input = [seq |-> 0, station |-> 0, command_id |-> 32]) =>
        /\ Len(wire.bytes) = 13
        /\ SubSeq(wire.bytes, 1, 11) = <<0, 0, 0, 11, 1, 0, 0, 0, 1, 0, 32>>
        /\ SubSeq(wire.bytes, 12, 13) = write_u16(crc16(SubSeq(wire.bytes, 1, 11)))

\* C17: the datagram of ReadFirmwareVersion for station 0 with sequence
\* number 0 is 00 00 00 0D 01 00 00 00 00 00 20 followed by the CRC-16 of
\* these 11 bytes, CA 67: the length field counts all 13 bytes and the
\* attribute byte is 0 (Request).
C17_FirmwareVersionDatagram ==
    (/\ wire.what = "request" /\ wire.stage = "encoded" /\ wire.tampered = 0
     /\ wire.input = [seq |-> 0, station |-> 0, command_id |-> 32]) =>
        /\ wire.bytes = <<0, 0, 0, 13, 1, 0, 0, 0, 0, 0, 32, 202, 103>>
        /\ SubSeq(wire.bytes, 12, 13) = write_u16(crc16(SubSeq(wire.bytes, 1, 11)))

\* The request for the firmware version of station 0 with sequence number
\* 0 has been encoded.
C17_Witness ==
    /\ wire.what = "request" /\ wire.stage = "encoded" /\ wire.tampered = 0
    /\ wire.input = [seq |-> 0, station |-> 0, command_id |-> 32]
    /\ Len(wire.bytes) = 13

\* C19: a write-bit-array request of 1 to 128 values that is encoded and
\* decoded comes back with the same address and the same values.
C19_WriteBitsRoundTrip ==
    (/\ wire.what = "write_outputs" /\ wire.stage = "decoded"
     /\ Len(wire.input.values) >= 1 /\ Len(wire.input.values) <= 128) =>
        /\ wire.output.ok
        /\ wire.output.address = wire.input.address
        /\ wire.output.values = wire.input.values

\* C20 as stated: address 100 with values [true, false, true] encodes to
\* 04 00 64 02 05.
C20_BytesAsStated ==
    (/\ wire.what = "write_outputs" /\ wire.stage = "encoded"
     /\ wire.input = [address |-> 100, values |-> <<TRUE, FALSE, TRUE>>]) =>
        wire.bytes = <<4, 0, 100, 2, 5>>

\* C20: address 100 with values [true, false, true] encodes to
\* 03 00 64 02 05: one packed byte plus 2, the address, the number of
\* values minus 1, the packed bits.
C20_WriteBitsBytes ==
    (/\ wire.what = "write_outputs" /\ wire.stage = "encoded"
     /\ wire.input = [address |-> 100, values |-> <<TRUE, FALSE, TRUE>>]) =>
        wire.bytes = <<3, 0, 100, 2, 5>>

\* The request with address 100 and values [true, false, true] has been
\* encoded to five bytes.
C20_Witness ==
    /\ wire.what = "write_outputs" /\ wire.stage = "encoded"
    /\ wire.input = [address |-> 100, values |-> <<TRUE, FALSE, TRUE>>]
    /\ Len(wire.bytes) = 5

\* C21: a clock whose fields are all at most 99 encodes to eight bytes, the
\* fields in the order week, weekday, year, month, day, hour, minute,
\* second, each as 16 * (v div 10) + (v mod 10), and decodes back to
\* itself; a clock with a field above 99 fails to encode with Overflow;
\* eight received bytes decode to 10 * (high digit) + (low digit) per
\* byte, or to InvalidData("Invalid time data") when a byte has a
\* hexadecimal digit A-F.
C21_RealTimeClockCodec ==
    /\ (wire.what = "rtc" /\ wire.stage # "input") =>
          IF \E k \in 1 .. 8 : wire.input[RtcFields[k]] > 99
          THEN wire.stage = "failed" /\ wire.output = [ok |-> FALSE, error |-> "Overflow"]
          ELSE /\ wire.stage \in {"encoded", "decoded"}
               /\ Len(wire.bytes) = 8
               /\ \A k \in 1 .. 8 :
                     wire.bytes[k] = 16 * (wire.input[RtcFields[k]] \div 10)
                                     + (wire.input[RtcFields[k]] % 10)
               /\ wire.stage = "decoded" => wire.output = [ok |-> TRUE, rtc |-> wire.input]
    /\ (wire.what = "rtc_bytes" /\ wire.stage = "decoded" /\ Len(wire.bytes) = 8) =>
          IF \E k \in 1 .. 8 : wire.bytes[k] \div 16 >= 10 \/ wire.bytes[k] % 16 >= 10
          THEN wire.output = [ok |-> FALSE, error |-> InvalidData("Invalid time data")]
          ELSE /\ wire.output.ok
               /\ \A k \in 1 .. 8 :
                     wire.output.rtc[RtcFields[k]] =
                        10 * (wire.bytes[k] \div 16) + (wire.bytes[k] % 16)

\* A clock with week 99 was encoded to 99 04 24 12 31 23 58 59 (hex) and
\* decoded back.
C21_Witness ==
    /\ wire.what = "rtc" /\ wire.stage = "decoded"
    /\ wire.input.week = 99
    /\ wire.bytes = <<153, 4, 36, 18, 49, 35, 88, 89>>
    /\ wire.output.ok /\ wire.output.rtc.week = 99 /\ wire.output.rtc.hour = 23

\* C22: N booleans are written as ceil(N/8) bytes, boolean k*8+i in bit i
\* (weight 2^i) of byte k, the unused high bits of the last byte zero; and
\* reading N booleans from bytes takes bit i of byte k as boolean k*8+i,
\* consumes ceil(N/8) bytes, and gives back the list that was written.
C22_PackedBooleans ==
    /\ (wire.what = "bools" /\ wire.stage # "input") =>
          /\ wire.stage \in {"encoded", "decoded"}
          /\ Len(wire.bytes) = (Len(wire.input) + 7) \div 8
          /\ \A k \in 0 .. Len(wire.bytes) - 1 : \A i \in 0 .. 7 :
                ((wire.bytes[k + 1] \div (2 ^ i)) % 2 = 1)
                   <=> (k * 8 + i < Len(wire.input) /\ wire.input[k * 8 + i + 1])
          /\ wire.stage = "decoded" =>
                /\ wire.output.ok
                /\ wire.output.values = wire.input
                /\ wire.output.used = (Len(wire.input) + 7) \div 8
    /\ (wire.what = "bools_bytes" /\ wire.stage = "decoded"
          /\ Len(wire.bytes) >= (wire.input + 7) \div 8) =>
          /\ wire.output.ok
          /\ Len(wire.output.values) = wire.input
          /\ wire.output.used = (wire.input + 7) \div 8
          /\ \A n \in 0 .. wire.input - 1 :
                wire.output.values[n + 1]
                   <=> ((wire.bytes[(n \div 8) + 1] \div (2 ^ (n % 8))) % 2 = 1)

\* Nine booleans, the first and the last TRUE, were written as 01 01 (hex)
\* and read back.
C22_Witness ==
    /\ wire.what = "bools" /\ wire.stage = "decoded"
    /\ wire.input = <<TRUE, FALSE, FALSE, FALSE, FALSE, FALSE, FALSE, FALSE, TRUE>>
    /\ wire.bytes = <<1, 1>>
    /\ wire.output.ok /\ wire.output.values = wire.input /\ wire.output.used = 2

\* The remainder of data(x) * x^16 divided by x^16 + x^12 + x^5 + 1 over
\* GF(2), by long division: the bits of data, most significant first, then
\* sixteen zero bits, are shifted into the remainder one at a time.
XmodemRemainder(data) ==
    LET bits == 8 * Len(data)
        DataBit(n) == (data[((n - 1) \div 8) + 1] \div (2 ^ (7 - ((n - 1) % 8)))) % 2
        remainder[n \in 0 .. bits + 16] ==
            IF n = 0 THEN 0
            ELSE LET shifted == 2 * remainder[n - 1] + (IF n <= bits THEN DataBit(n) ELSE 0)
                 IN IF shifted >= 65536 THEN Xor(shifted, 69665) ELSE shifted
    IN remainder[bits + 16]

\* C23: crc16 is CRC-16/XMODEM: it starts from 0, takes the bytes most
\* significant bit first, and returns the remainder of the division by the
\* polynomial 0x1021 with no reflection and no final xor (0x31C3 for the
\* text "123456789"); the register never exceeds 16 bits; and the crc of no
\* bytes is 0.
C23_Crc16Xmodem ==
    wire.what = "crc" =>
        /\ wire.output.crc <= 65535
        /\ wire.stage = "returned" =>
              /\ wire.output.crc = XmodemRemainder(wire.input)
              /\ wire.output.crc = crc16(wire.input)
              /\ wire.input = << >> => wire.output.crc = 0
              /\ wire.input = <<49, 50, 51, 52, 53, 54, 55, 56, 57>> =>
                    wire.output.crc = 12739

\* crc16 returned 0x31C3 for the nine bytes of "123456789".
C23_Witness ==
    /\ wire.what = "crc" /\ wire.stage = "returned"
    /\ wire.input = <<49, 50, 51, 52, 53, 54, 55, 56, 57>>
    /\ wire.output = [crc |-> 12739, byte |-> 9, bit |-> 0]

\* C24: a device-float word that is not in a saturation corner (its
\* exponent field is neither 0 nor 127 and its mantissa is not 0xFFFFFF)
\* comes back unchanged from sbus_float_to_ieee followed by
\* ieee_to_sbus_float.
C24_FloatRoundTrip ==
    (/\ wire.what = "sbus_float" /\ wire.stage = "sbus"
     /\ (wire.input % 128) \notin {0, 127}
     /\ (wire.input \div 256) % 16777216 # 16777215)
        => wire.output.sbus = wire.input

\* The reference values of the conversion: 1234.5 is sent as -1706033077,
\* and -1706033077 is received as 1234.5 = (0x9A5000 / 2^24) * 2^11 and
\* sent back as the same word; NaN is sent as 0, and the infinities as
\* the largest mantissa and exponent with their sign.
C24_ReferenceValues ==
    /\ (wire.what = "sbus_float" /\ wire.stage = "sbus" /\ wire.input = -1706033077) =>
          /\ wire.output.ieee = F64("finite", 1, 10113024, 11)
          /\ wire.output.sbus = -1706033077
    /\ (wire.what = "f64" /\ wire.stage = "sbus") =>
          /\ wire.input = F64("finite", 1, 10113024, 11) => wire.output.sbus = -1706033077
          /\ wire.input.class = "nan" => wire.output.sbus = 0
          /\ wire.input = F64("infinite", 1, 0, 0) => wire.output.sbus = -129
          /\ wire.input = F64("infinite", -1, 0, 0) => wire.output.sbus = -1

\* The word of -1234.5 was received and sent back as 0x00000080, and the
\* word of 1.0 (mantissa 0x800000, exponent 1) as 0x00000040.
C24_NegativeSentAsZero ==
    /\ wire.what = "sbus_float" /\ wire.stage = "sbus"
    /\ \/ wire.input = -1706032949 /\ wire.output.sbus = 128
       \/ wire.input = I32FromBits(8388608, 65) /\ wire.output.sbus = 64

\* C27 as stated: a body of counters, registers or timers whose length is
\* not a multiple of 4 decodes to floor(length / 4) values.
C27_PartialWordTruncated ==
    (wire.what = "ints_bytes" /\ wire.stage = "decoded" /\ Len(wire.bytes) % 4 # 0) =>
        /\ wire.output.ok
        /\ Len(wire.output.values) = Len(wire.bytes) \div 4

\* C27: a body of counters or registers whose length is not a multiple of
\* 4 fails to decode with MissingData, which the client returns as
\* InvalidResponse("The server sent invalid data"); a body of 4 * n bytes
\* decodes to its n big-endian words.
C27_PartialWordIsMissingData ==
    (wire.what = "ints_bytes" /\ wire.stage = "decoded") =>
        IF Len(wire.bytes) % 4 # 0
        THEN /\ wire.output = [ok |-> FALSE, error |-> MissingData]
             /\ ReadIntsReturn(wire.bytes) = FromDecodeError(MissingData)
        ELSE /\ wire.output.ok
             /\ Len(wire.output.values) = Len(wire.bytes) \div 4
             /\ wire.bytes = <<0, 0, 0, 1, 255, 255, 255, 254>> =>
                   wire.output.values = <<1, -2>>

\* A body of six bytes was decoded and MissingData came out.
C27_Witness ==
    /\ wire.what = "ints_bytes" /\ wire.stage = "decoded"
    /\ wire.bytes = <<0, 0, 0, 1, 255, 255>>
    /\ ~wire.output.ok /\ wire.output.error = MissingData

\* C28: a datagram whose length field is below 6 fails to decode with
\* InvalidData("Invalid byte length"), whatever follows the four bytes of
\* the length field: nothing at all, too few bytes, or a checksum that
\* matches.
C28_ShortLengthRejected ==
    (/\ wire.what = "datagram" /\ wire.stage = "decoded"
     /\ Len(wire.bytes) >= 4
     /\ wire.bytes[1] = 0 /\ wire.bytes[2] = 0 /\ wire.bytes[3] = 0 /\ wire.bytes[4] < 6)
        => wire.output = [ok |-> FALSE, error |-> InvalidData("Invalid byte length")]

\* A datagram that is just the length field 5 and the checksum of these
\* four bytes was decoded and rejected for its length.
C28_Witness ==
    /\ wire.what = "datagram" /\ wire.stage = "decoded"
    /\ wire.bytes = <<0, 0, 0, 5>> \o write_u16(crc16(<<0, 0, 0, 5>>))
    /\ wire.output = [ok |-> FALSE, error |-> InvalidData("Invalid byte length")]

\* C25: when the receiver holds the sender of a request whose caller gave
\* up, the entry of that request is out of the map, and the delivery
\* changes no channel, no request and no entry: the receiver goes back to
\* recv() without a result of its own, so it has not terminated and has
\* told no other request of an error.
C25_DroppedAwaiterTolerated ==
    [][(rx_pc = "fulfil" /\ pc[rx_sender] = "abandoned") =>
          /\ ~InMap(rx_sender)
          /\ rx_pc' # rx_pc =>
                /\ rx_pc' = "recv" /\ rx_result' = NoValue
                /\ chan' = chan /\ response_map' = response_map
                /\ pc' = pc /\ result' = result]_vars

\* The reply to request 1, which was transmitted and then given up, was
\* taken by the receiver and left no trace in the channel; the receiver is
\* receiving again and request 2 has been served.
C25_Witness ==
    /\ pc[1] = "abandoned" /\ 1 \in Transmitted
    /\ ~InMap(1) /\ chan[1] = Empty
    /\ rx_pc = "recv" /\ rx_result = NoValue
    /\ pc[2] = "done" /\ result[2].kind = "Ok"

\* C29: once the receiver has returned (with the error of a datagram that
\* did not decode, of a failed recv(), or of an unexpected sequence number)
\* it stays returned and no empty channel ever gets a value; a request that
\* is still to register has an empty channel, so it can register and
\* transmit, and a request that awaits an empty channel stays awaiting
\* until its caller gives it up.
C29_NoFulfilmentAfterTermination ==
    [][rx_result # NoValue =>
          /\ rx_pc = "returned" /\ rx_pc' = "returned" /\ rx_result' = rx_result
          /\ rx_result \in {Unexpected, IOError} \cup {FromDecodeError(e) : e \in DecodeErrors}
          /\ \A i \in Requests :
                /\ chan[i] = Empty => chan'[i] = Empty
                /\ pc[i] = "lock" => chan[i] = Empty
                /\ (pc[i] = "await" /\ chan[i] = Empty) => pc'[i] \in {"await", "abandoned"}]_vars

\* The receiver returned the error of a datagram that did not decode and
\* emptied the map; request 2 registered afterwards, was transmitted, and
\* awaits an empty channel.
C29_Witness ==
    /\ Drained /\ rx_result \in {FromDecodeError(e) : e \in DecodeErrors}
    /\ Registered(2) /\ 2 \in Transmitted
    /\ pc[2] = "await" /\ chan[2] = Empty

\* C30: a request that awaits its channel never finds it closed without a
\* value (its sender is in the map, or was used to send), so the unwrap of
\* the awaited channel never panics.
C30_AwaitedSlotNeverClosed ==
    \A i \in Requests :
        /\ pc[i] # "panicked"
        /\ pc[i] = "await" => chan[i] # Closed

\* C26: the task that holds the mutex of the pending table is never
\* suspended on the socket or on a reply slot (a request that holds it is
\* between lock() and the drop of the guard, the receiver between lock()
\* and remove() or the drain); and every task that waits for the mutex
\* gets it, unless its caller gives it up while it waits.
C26_LockNeverHeldAcrossSuspension ==
    /\ [](/\ mutex \in Requests => pc[mutex] = "lock"
          /\ mutex = ReceiverTask => rx_pc \in {"lookup", "drain"}
          /\ \A i \in Requests : pc[i] \in {"send", "await"} => mutex # i
          /\ rx_pc \in {"recv", "fulfil"} => mutex # ReceiverTask)
    /\ \A i \in Requests :
          (pc[i] = "lock" /\ mutex # i) ~> (mutex = i \/ pc[i] = "abandoned")
    /\ (rx_pc \in {"lookup", "drain"} /\ mutex # ReceiverTask) ~> (mutex = ReceiverTask)

\* The receiver holds the mutex to look up the reply to request 1, which
\* awaits its slot, while request 2 waits for the mutex.
C26_Witness ==
    /\ mutex = ReceiverTask /\ rx_pc = "lookup"
    /\ pc[1] = "await" /\ chan[1] = Empty
    /\ pc[2] = "lock"

====
